---- MODULE Spec2Model ----
(***************************************************************************)
(* Task-list service of okayus/monorepo-pnpm-turbo.                        *)
(*                                                                         *)
(* The store is the D1 (SQLite) database laid out by the drizzle           *)
(* migration; rows enter it by direct SQL inserts.  The service is the     *)
(* Hono app of packages/backend/src/index.ts: a cors middleware, GET / and *)
(* GET /api/tasks, the latter answered by getTaskList with one drizzle     *)
(* query, SELECT ... FROM tasks ORDER BY created_at DESC.                  *)
(***************************************************************************)
EXTENDS Integers, Sequences, FiniteSets, TLC

(***************************************************************************)
(* Bounds of the model.                                                    *)
(***************************************************************************)
MaxUsers == 1

MaxTasks == 2

MaxClock == 1

\* automatic retries of a failed list request the QueryClient may make
MaxRetry == 1

(***************************************************************************)
(* Values.                                                                 *)
(***************************************************************************)
NULL == "NULL"

\* a user_id beyond every id AUTOINCREMENT assigns within the bounds
NoSuchUserId == MaxUsers + 1

Emails == {"a@example.com", "b@example.com"}

\* text values are sequences of digit characters
\* an explicit created_at written without zero padding
UnpaddedCreatedAt == <<9>>

ExplicitCreatedAt == {UnpaddedCreatedAt}

\* a column an INSERT does not name is left to its DEFAULT
Omitted == {}

Given(v) == {v}

ValueOf(g) == CHOOSE v \in g : TRUE

\* what an INSERT INTO tasks supplies besides user_id and title: nothing, or
\* a description, a completed flag and a created_at of its own
TaskInputs ==
  { [description |-> Omitted, completed |-> Omitted, created_at |-> Omitted] }
  \cup { [description |-> Given("Description 1"), completed |-> Given(1),
          created_at |-> Given(x)] : x \in ExplicitCreatedAt }

(***************************************************************************)
(* Layout of the store.                                                    *)
(***************************************************************************)
\* CREATE TABLE `tasks` of the migration
MigrationTasksColumns == {"id", "user_id", "title", "completed", "created_at"}

\* CREATE TABLE `users` of the migration
MigrationUsersColumns == {"id", "name", "email", "created_at"}

\* sqliteTable('tasks', ...) of the ORM schema
SchemaTasksColumns ==
  {"id", "user_id", "title", "description", "completed", "created_at"}

\* sqliteTable('users', ...) of the ORM schema
SchemaUsersColumns == {"id", "name", "email", "created_at"}

\* field names of the Task type inferred from the schema
TaskFields == {"id", "userId", "title", "description", "completed", "createdAt"}

VARIABLES
  users,        \* rows of the users table
  tasks,        \* rows of the tasks table
  tasksColumns, \* columns the tasks table has in the store
  nextUserId,   \* AUTOINCREMENT of users.id
  nextTaskId,   \* AUTOINCREMENT of tasks.id
  clock,        \* the store's current time
  lastOp,       \* the operation of the last step and its outcome
  resp,         \* the last HTTP response the service produced
  queried,      \* the tasks table and the query result behind that response
  mounted,      \* the frontend's component tree is mounted
  boundary,     \* state of the ErrorBoundary instance
  query,        \* the ['tasks'] entry of the QueryClient's cache
  inflight,     \* list requests of the frontend that have not settled yet
  requested,    \* the tasks table at the time the last list request was issued
  lastRender    \* the frontend step taken last and the requests it issued

vars ==
  <<users, tasks, tasksColumns, nextUserId, nextTaskId, clock, lastOp, resp,
    queried, mounted, boundary, query, inflight, requested, lastRender>>

\* the frontend's state
client == <<mounted, boundary, query, inflight, requested, lastRender>>

store == <<users, tasks, tasksColumns, nextUserId, nextTaskId>>

(***************************************************************************)
(* Text: SQLite compares TEXT with the BINARY collation, byte by byte,     *)
(* a proper prefix being smaller.                                          *)
(***************************************************************************)
RECURSIVE TextLess(_, _)
TextLess(a, b) ==
  IF b = <<>> THEN FALSE
  ELSE IF a = <<>> THEN TRUE
  ELSE IF Head(a) # Head(b) THEN Head(a) < Head(b)
  ELSE TextLess(Tail(a), Tail(b))

\* datetime('now'): fixed width, zero padded
DatetimeNow(t) == <<t \div 10, t % 10>>

UserIds == {u.id : u \in users}


(***************************************************************************)
(* The store: constraints and defaults of the two tables.                  *)
(***************************************************************************)
\* FOREIGN KEY (`user_id`) REFERENCES `users`(`id`), with foreign keys off
ForeignKeyOk_Off(userId, us) == TRUE

\* FOREIGN KEY (`user_id`) REFERENCES `users`(`id`)
ForeignKeyOk(userId, us) == userId \in {u.id : u \in us}

\* CREATE UNIQUE INDEX `users_email_unique` ON `users` (`email`)
EmailUnique(email, us) == email \notin {u.email : u \in us}

\* an INSERT may only name columns the table has
ColumnsOk(input, cols) ==
  input.description # Omitted => "description" \in cols

\* the row of a tasks table whose completed column has DEFAULT true
NewTaskRow_DefaultTrue(id, userId, input, now) ==
  [ id          |-> id,
    user_id     |-> userId,
    title       |-> "Task",
    description |-> IF input.description = Omitted THEN NULL
                    ELSE ValueOf(input.description),
    completed   |-> IF input.completed = Omitted THEN 1
                    ELSE ValueOf(input.completed),
    created_at  |-> IF input.created_at = Omitted THEN DatetimeNow(now)
                    ELSE ValueOf(input.created_at) ]

\* the row an INSERT INTO tasks stores: DEFAULT false, DEFAULT (datetime('now')),
\* a nullable description
NewTaskRow(id, userId, input, now) ==
  [ id          |-> id,
    user_id     |-> userId,
    title       |-> "Task",
    description |-> IF input.description = Omitted THEN NULL
                    ELSE ValueOf(input.description),
    completed   |-> IF input.completed = Omitted THEN 0
                    ELSE ValueOf(input.completed),
    created_at  |-> IF input.created_at = Omitted THEN DatetimeNow(now)
                    ELSE ValueOf(input.created_at) ]

\* the row an INSERT INTO users stores; name and created_at take part in no
\* operation of the service and are left out of the row
NewUserRow(id, email) == [id |-> id, email |-> email]

(***************************************************************************)
(* Direct inserts (wrangler d1 execute): the only way rows are created.    *)
(***************************************************************************)
\* an INSERT OR IGNORE INTO users: a duplicate email is skipped silently
InsertUser_OrIgnore(email) ==
  /\ EmailUnique(email, users) => nextUserId <= MaxUsers
  /\ IF EmailUnique(email, users)
     THEN /\ users' = users \cup {NewUserRow(nextUserId, email)}
          /\ nextUserId' = nextUserId + 1
     ELSE UNCHANGED <<users, nextUserId>>
  /\ lastOp' = [op |-> "insert user", outcome |-> "ok", arg |-> email]
  /\ UNCHANGED <<tasks, tasksColumns, nextTaskId, clock, resp, queried, client>>

InsertUser(email) ==
  /\ EmailUnique(email, users) => nextUserId <= MaxUsers
  /\ IF EmailUnique(email, users)
     THEN /\ users' = users \cup {NewUserRow(nextUserId, email)}
          /\ nextUserId' = nextUserId + 1
          /\ lastOp' = [op |-> "insert user", outcome |-> "ok", arg |-> email]
     ELSE /\ UNCHANGED <<users, nextUserId>>
          /\ lastOp' = [op |-> "insert user", outcome |-> "UNIQUE constraint failed",
                        arg |-> email]
  /\ UNCHANGED <<tasks, tasksColumns, nextTaskId, clock, resp, queried, client>>

InsertTask(userId, input) ==
  /\ (ColumnsOk(input, tasksColumns) /\ ForeignKeyOk(userId, users))
       => nextTaskId <= MaxTasks
  /\ IF ~ColumnsOk(input, tasksColumns)
     THEN /\ UNCHANGED <<tasks, nextTaskId>>
          /\ lastOp' = [op |-> "insert task", outcome |-> "no such column",
                        arg |-> userId]
     ELSE IF ~ForeignKeyOk(userId, users)
     THEN /\ UNCHANGED <<tasks, nextTaskId>>
          /\ lastOp' = [op |-> "insert task",
                        outcome |-> "FOREIGN KEY constraint failed", arg |-> userId]
     ELSE /\ tasks' = tasks \cup {NewTaskRow(nextTaskId, userId, input, clock)}
          /\ nextTaskId' = nextTaskId + 1
          /\ lastOp' = [ op |-> "insert task", outcome |-> "ok", arg |-> userId,
                         input |-> input ]
  /\ UNCHANGED <<users, tasksColumns, nextUserId, clock, resp, queried, client>>

\* pnpm db:generate, pnpm db:migrate: the columns the schema has and the table
\* lacks are added; existing rows read NULL in them
DbGenerateMigrate ==
  /\ tasksColumns # SchemaTasksColumns
  /\ tasksColumns' = tasksColumns \cup SchemaTasksColumns
  /\ lastOp' = [op |-> "db:migrate", outcome |-> "ok", arg |-> NULL]
  /\ UNCHANGED <<users, tasks, nextUserId, nextTaskId, clock, resp, queried, client>>

\* time passes at the store
Tick ==
  /\ clock < MaxClock
  /\ clock' = clock + 1
  /\ lastOp' = [op |-> "tick", outcome |-> "ok", arg |-> NULL]
  /\ UNCHANGED <<users, tasks, tasksColumns, nextUserId, nextTaskId, resp, queried, client>>


(***************************************************************************)
(* The query of getTaskList:                                               *)
(*   db.select().from(tasks).orderBy(desc(tasks.createdAt))                *)
(***************************************************************************)
RECURSIVE Perms(_)
\* the sequences that list every element of S exactly once
Perms(S) ==
  IF S = {} THEN {<<>>}
  ELSE UNION { {<<x>> \o p : p \in Perms(S \ {x})} : x \in S }

\* orderBy(asc(tasks.createdAt))
OrderedDesc_Asc(s) ==
  \A i, j \in 1..Len(s) : i < j => ~TextLess(s[j].created_at, s[i].created_at)

\* ORDER BY created_at DESC: no row precedes a row with a greater created_at;
\* the order of rows with equal created_at is not defined
OrderedDesc(s) ==
  \A i, j \in 1..Len(s) : i < j => ~TextLess(s[i].created_at, s[j].created_at)

\* select().from(tasks).limit(1)
SelectFrom_Limit(rows) == IF rows = {} THEN {} ELSE {CHOOSE r \in rows : TRUE}

\* select().from(tasks): every row of the table, no WHERE, no LIMIT
SelectFrom(rows) == rows

\* drizzle names every column of the schema in the SELECT list: the statement
\* is an SQL error when the table lacks one of them
SelectColumnsOk(cols) == SchemaTasksColumns \subseteq cols

\* the values of a Task object, with the type JSON gives them
JsNumber(v) == [type |-> "number", value |-> v]

JsString(v) == [type |-> "string", value |-> v]

JsBoolean(v) == [type |-> "boolean", value |-> v]

JsNull == [type |-> "null", value |-> NULL]

\* integer('completed', { mode: 'boolean' }) read without the boolean mode
CompletedFromDriver_Int(v) == JsNumber(v)

\* integer('completed', { mode: 'boolean' }): the driver's 0/1 becomes a boolean
CompletedFromDriver(v) == JsBoolean(v = 1)

\* text('description'): nullable
DescriptionFromDriver(v) == IF v = NULL THEN JsNull ELSE JsString(v)

\* the Task object drizzle builds from a result row
TaskFromRow(r) ==
  [ id          |-> JsNumber(r.id),
    userId      |-> JsNumber(r.user_id),
    title       |-> JsString(r.title),
    description |-> DescriptionFromDriver(r.description),
    completed   |-> CompletedFromDriver(r.completed),
    createdAt   |-> JsString(r.created_at) ]

MapSeq(s) == [i \in 1..Len(s) |-> TaskFromRow(s[i])]

\* the results the query can resolve to on a reachable store
QueryResults(rows, cols) ==
  IF SelectColumnsOk(cols)
  THEN { [ok |-> TRUE, value |-> MapSeq(s), error |-> ""] :
           s \in {p \in Perms(SelectFrom(rows)) : OrderedDesc(p)} }
  ELSE { [ok |-> FALSE, value |-> <<>>, error |-> "D1_ERROR: no such column"] }

\* the query rejects when the store cannot be reached
QueryUnavailable ==
  [ok |-> FALSE, value |-> <<>>, error |-> "D1_ERROR: store unavailable"]


(***************************************************************************)
(* The service: the Hono app.                                              *)
(***************************************************************************)
DevOrigin == "http://localhost:5173"

ProdOrigin == "https://monorepo-pnpm-turbo-frontend.pages.dev"

\* cors({ origin: [...] })
CorsOrigins == {DevOrigin, ProdOrigin}

\* cors({ allowMethods: [...] })
CorsAllowMethods == {"GET", "POST", "PUT", "DELETE", "OPTIONS"}

\* cors({ maxAge: 600 })
CorsMaxAge == 600

\* the Origin header of a request
Origins == CorsOrigins \cup {"https://evil.example"}

Paths == {"/", "/api/tasks"}

\* cors({ credentials: true })
CorsCredentials == TRUE

\* cors({ origin: '*' }): every origin is allowed
AllowOrigin_Any(origin) == origin

\* the origin the cors middleware allows for a request: the request's own
\* origin when the list has it, none otherwise
AllowOrigin(origin) == IF origin \in CorsOrigins THEN origin ELSE "none"

\* the Access-Control-* headers the middleware puts on a response to a request
\* with the given Origin
CorsHeaders(origin) ==
  [ origin |-> origin, acao |-> AllowOrigin(origin),
    credentials |-> CorsCredentials ]

\* getTaskList as the setup guide writes it: an envelope with success and count
getTaskList_Envelope(q) ==
  IF q.ok
  THEN [ kind |-> "return", status |-> 200, ctype |-> "json",
         body |-> [success |-> TRUE, tasks |-> q.value, count |-> Len(q.value)] ]
  ELSE [ kind |-> "throw", status |-> 0, ctype |-> "none",
         body |-> [error |-> q.error] ]

\* getTaskList answering 404 when there is nothing to list
getTaskList_EmptyNotFound(q) ==
  IF q.ok
  THEN IF q.value = <<>>
       THEN [ kind |-> "return", status |-> 404, ctype |-> "json",
              body |-> [error |-> "No tasks"] ]
       ELSE [ kind |-> "return", status |-> 200, ctype |-> "json",
              body |-> [tasks |-> q.value] ]
  ELSE [ kind |-> "throw", status |-> 0, ctype |-> "none",
         body |-> [error |-> q.error] ]

\* a getTaskList that hands the rows back in the opposite order
getTaskList_Reversed(q) ==
  IF q.ok
  THEN [ kind |-> "return", status |-> 200, ctype |-> "json",
         body |-> [tasks |-> [i \in 1..Len(q.value) |->
                               q.value[Len(q.value) + 1 - i]]] ]
  ELSE [ kind |-> "throw", status |-> 0, ctype |-> "none",
         body |-> [error |-> q.error] ]

\* getTaskList: awaits the query, then c.json({ tasks: allTasks }, 200); there
\* is no try/catch, a rejected query leaves the handler as an exception
getTaskList(q) ==
  IF q.ok
  THEN [ kind |-> "return", status |-> 200, ctype |-> "json",
         body |-> [tasks |-> q.value] ]
  ELSE [ kind |-> "throw", status |-> 0, ctype |-> "none",
         body |-> [error |-> q.error] ]

\* the app registers no onError: an exception that leaves a handler is answered
\* by the framework with a plain-text 500
AppResponse(route, h, origin) ==
  IF h.kind = "return"
  THEN [ route |-> route, status |-> h.status, ctype |-> h.ctype,
         body |-> h.body, handler |-> "returned", cors |-> CorsHeaders(origin) ]
  ELSE [ route |-> route, status |-> 500, ctype |-> "text",
         body |-> [text |-> "Internal Server Error"], handler |-> "threw",
         cors |-> CorsHeaders(origin) ]

NoQuery ==
  [ rows |-> {}, result |-> [ok |-> FALSE, value |-> <<>>, error |-> "no query"],
    calls |-> <<>> ]

\* the calls getTaskList makes on db, in order:
\* db.select().from(tasks).orderBy(desc(tasks.createdAt))
DbCalls == <<"select", "from", "orderBy">>

\* a GET / that probes the tasks table before it answers
GetRoot_Probing(origin) ==
  /\ resp' = AppResponse("/",
               IF SelectColumnsOk(tasksColumns)
               THEN [ kind |-> "return", status |-> 200, ctype |-> "json",
                      body |-> [message |-> "Hello, World!"] ]
               ELSE [ kind |-> "throw", status |-> 0, ctype |-> "none",
                      body |-> [error |-> "D1_ERROR: no such column"] ], origin)
  /\ lastOp' = [op |-> "GET /", outcome |-> "return", arg |-> NULL]
  /\ queried' = NoQuery
  /\ UNCHANGED <<users, tasks, tasksColumns, nextUserId, nextTaskId, clock, client>>

\* .get('/', (c) => c.json({ message: 'Hello, World!' }))
GetRoot(origin) ==
  /\ resp' = AppResponse("/",
               [ kind |-> "return", status |-> 200, ctype |-> "json",
                 body |-> [message |-> "Hello, World!"] ], origin)
  /\ lastOp' = [op |-> "GET /", outcome |-> "return", arg |-> NULL]
  /\ queried' = NoQuery
  /\ UNCHANGED <<users, tasks, tasksColumns, nextUserId, nextTaskId, clock, client>>

\* what a list request knows of the list request answered just before it
Previous == [ok |-> queried.result.ok, rows |-> queried.rows]

\* GET /api/tasks of a service that seeds a demo task into an empty table
GetApiTasks_Seeding(origin) ==
  /\ \E q \in QueryResults(tasks, tasksColumns) \cup {QueryUnavailable} :
       /\ resp' = AppResponse("/api/tasks", getTaskList(q), origin)
       /\ lastOp' = [ op |-> "GET /api/tasks", outcome |-> getTaskList(q).kind,
                      arg |-> Previous ]
       /\ queried' = [rows |-> tasks, result |-> q, calls |-> DbCalls]
  /\ IF tasks = {} /\ users # {} /\ nextTaskId <= MaxTasks
     THEN /\ tasks' = {NewTaskRow(nextTaskId, CHOOSE id \in UserIds : TRUE,
                         [description |-> Omitted, completed |-> Omitted,
                          created_at |-> Omitted], clock)}
          /\ nextTaskId' = nextTaskId + 1
     ELSE UNCHANGED <<tasks, nextTaskId>>
  /\ UNCHANGED <<users, tasksColumns, nextUserId, clock, client>>

\* GET /api/tasks of a service that keeps the first list it produced in memory
GetApiTasks_Cached(origin) ==
  /\ IF resp.route = "/api/tasks" /\ queried.result.ok
     THEN /\ resp' = [resp EXCEPT !.cors = CorsHeaders(origin)]
          /\ lastOp' = [ op |-> "GET /api/tasks", outcome |-> "return",
                         arg |-> Previous ]
          /\ queried' = [ rows |-> tasks, result |-> queried.result,
                         calls |-> <<>> ]
     ELSE \E q \in QueryResults(tasks, tasksColumns) \cup {QueryUnavailable} :
            /\ resp' = AppResponse("/api/tasks", getTaskList(q), origin)
            /\ lastOp' = [ op |-> "GET /api/tasks",
                           outcome |-> getTaskList(q).kind,
                           arg |-> Previous ]
            /\ queried' = [rows |-> tasks, result |-> q, calls |-> DbCalls]
  /\ UNCHANGED <<users, tasks, tasksColumns, nextUserId, nextTaskId, clock, client>>

\* .get('/api/tasks', ...): createDB(c.env.DB), then getTaskList(db, c); the
\* drizzle instance is built per request and nothing is kept after the response
GetApiTasks(origin) ==
  /\ \E q \in QueryResults(tasks, tasksColumns) \cup {QueryUnavailable} :
       /\ resp' = AppResponse("/api/tasks", getTaskList(q), origin)
       /\ lastOp' = [ op |-> "GET /api/tasks", outcome |-> getTaskList(q).kind,
                      arg |-> Previous ]
       /\ queried' = [rows |-> tasks, result |-> q, calls |-> DbCalls]
  /\ UNCHANGED <<users, tasks, tasksColumns, nextUserId, nextTaskId, clock, client>>

\* OPTIONS on any path: the cors middleware answers the preflight itself
Preflight(origin, path) ==
  /\ resp' = [ route |-> path, status |-> 204, ctype |-> "none",
               body |-> [allowMethods |-> CorsAllowMethods, maxAge |-> CorsMaxAge],
               handler |-> "cors", cors |-> CorsHeaders(origin) ]
  /\ lastOp' = [op |-> "OPTIONS", outcome |-> "return", arg |-> NULL]
  /\ queried' = NoQuery
  /\ UNCHANGED <<users, tasks, tasksColumns, nextUserId, nextTaskId, clock, client>>

(***************************************************************************)
(* The frontend: App renders ErrorBoundary > Suspense > TaskList, TaskList *)
(* reads the ['tasks'] query through useTasks.                             *)
(***************************************************************************)
\* the service's and the store's state
server ==
  <<users, tasks, tasksColumns, nextUserId, nextTaskId, clock, lastOp, resp,
    queried>>

\* error: null
NoError == "null"

\* data: undefined
NoData == {}

\* ErrorBoundary's constructor: this.state = { hasError: false, error: null }
ErrorBoundaryState == [hasError |-> FALSE, error |-> NoError]

\* a getDerivedStateFromError that keeps the flag and drops the error
getDerivedStateFromError_FlagOnly(error) == [hasError |-> TRUE, error |-> NoError]

\* static getDerivedStateFromError(error)
getDerivedStateFromError(error) == [hasError |-> TRUE, error |-> error]

\* reset = () => this.setState({ hasError: false, error: null })
reset == [hasError |-> FALSE, error |-> NoError]

\* a boundary that renders its children whatever its state
RendersFallback_Never(b) == FALSE

\* render(): the fallback when hasError and error, the children otherwise
RendersFallback(b) == b.hasError /\ b.error # NoError

\* a cache without the ['tasks'] entry
NoEntry ==
  [ status |-> "absent", data |-> NoData, error |-> NoError,
    fetching |-> FALSE, stale |-> FALSE, failureCount |-> 0 ]

\* response.ok
ResponseOk(r) == r.status >= 200 /\ r.status <= 299

\* response.json(): the parsed body, a rejection when the body is not JSON
ResponseJson(r) ==
  IF r.ctype = "json"
  THEN [ok |-> TRUE, data |-> {r.body}, error |-> NoError]
  ELSE [ok |-> FALSE, data |-> NoData, error |-> "Unexpected token"]

\* a queryFn that turns a failed response into an empty list
queryFn_Swallowing(r) ==
  IF ~ResponseOk(r)
  THEN [ok |-> TRUE, data |-> {[tasks |-> <<>>]}, error |-> NoError]
  ELSE ResponseJson(r)

\* useTasks' queryFn on the response of apiClient.api.tasks.$get()
queryFn(r) ==
  IF ~ResponseOk(r)
  THEN [ok |-> FALSE, data |-> NoData, error |-> "Failed to fetch tasks"]
  ELSE ResponseJson(r)

\* $get() itself rejects: no response reached the frontend
FetchRejected == [ok |-> FALSE, data |-> NoData, error |-> "Failed to fetch"]

\* a useTasks that fetches in every render, as a useEffect would
useTasks_EveryRender(q, mounting) ==
  IF q.data # NoData
  THEN [ query |-> [q EXCEPT !.fetching = TRUE], issued |-> 1,
         outcome |-> "data" ]
  ELSE [ query |-> [q EXCEPT !.status = "pending", !.fetching = TRUE],
         issued |-> 1, outcome |-> "suspend" ]

\* a useTasks whose cached result is stale at once
useTasks_NoFreshness(q, mounting) ==
  IF q.data # NoData
  THEN IF mounting /\ ~q.fetching
       THEN [ query |-> [q EXCEPT !.fetching = TRUE, !.failureCount = 0],
              issued |-> 1, outcome |-> "data" ]
       ELSE [query |-> q, issued |-> 0, outcome |-> "data"]
  ELSE IF q.fetching
  THEN [query |-> q, issued |-> 0, outcome |-> "suspend"]
  ELSE IF q.status = "error"
  THEN [query |-> q, issued |-> 0, outcome |-> "throw"]
  ELSE [ query |-> [NoEntry EXCEPT !.status = "pending", !.fetching = TRUE],
         issued |-> 1, outcome |-> "suspend" ]

\* useTasks(): one render of useSuspenseQuery({ queryKey: ['tasks'], queryFn })
\* against the cache entry q.  It returns the cached data (and refetches in
\* the background when the observer mounts on stale data), suspends on the
\* request in flight, rethrows a cached error, or starts the request.
useTasks(q, mounting) ==
  IF q.data # NoData
  THEN IF mounting /\ q.stale /\ ~q.fetching
       THEN [ query |-> [q EXCEPT !.fetching = TRUE, !.failureCount = 0],
              issued |-> 1, outcome |-> "data" ]
       ELSE [query |-> q, issued |-> 0, outcome |-> "data"]
  ELSE IF q.fetching
  THEN [query |-> q, issued |-> 0, outcome |-> "suspend"]
  ELSE IF q.status = "error"
  THEN [query |-> q, issued |-> 0, outcome |-> "throw"]
  ELSE [ query |-> [NoEntry EXCEPT !.status = "pending", !.fetching = TRUE],
         issued |-> 1, outcome |-> "suspend" ]

\* the boundary after its children rendered with result r
Caught(b, r) ==
  IF r.outcome = "throw" THEN getDerivedStateFromError(r.query.error) ELSE b

\* the cache entry after its request settled with result r; again: the
\* QueryClient retries the failed request
Settled(q, r, again) ==
  IF r.ok
  THEN [ status |-> "success", data |-> r.data, error |-> NoError,
         fetching |-> FALSE, stale |-> FALSE, failureCount |-> 0 ]
  ELSE IF again
  THEN [q EXCEPT !.failureCount = @ + 1]
  ELSE [q EXCEPT !.status = "error", !.error = r.error, !.fetching = FALSE,
                 !.failureCount = @ + 1]

\* may the QueryClient retry after result r
RetryChoices(q, r) ==
  IF ~r.ok /\ q.failureCount < MaxRetry THEN BOOLEAN ELSE {FALSE}

\* a TaskList that counts the completed tasks only
TaskListCount_Completed(data) ==
  Cardinality({i \in 1..Len(data.tasks) : data.tasks[i].completed.value})

\* TaskList: Fetched {data.tasks.length} tasks from backend.
TaskListCount(data) == Len(data.tasks)

\* what App shows
Display_NoSuspense ==
  IF ~mounted THEN "nothing"
  ELSE IF RendersFallback(boundary) THEN "error"
  ELSE IF query.data # NoData THEN "count"
  ELSE "nothing"

\* what App shows: the boundary's fallback, TaskList's count, or the Suspense
\* fallback while TaskList is suspended
Display ==
  IF ~mounted THEN "nothing"
  ELSE IF RendersFallback(boundary) THEN "error"
  ELSE IF query.data # NoData THEN "count"
  ELSE "loading"

\* what is on screen inside <ErrorBoundary>: the fallback (message and Retry
\* button) when the boundary renders it; otherwise the children, where
\* Suspense shows Loading... while TaskList is suspended on the request and
\* TaskList shows the count when useTasks returned data
Shown ==
  IF ~mounted THEN {}
  ELSE IF RendersFallback(boundary) THEN {"error"}
  ELSE {"loading" : x \in {o \in {useTasks(query, FALSE).outcome} :
                              o = "suspend" /\ query.fetching}}
       \cup {"count" : x \in {o \in {useTasks(query, FALSE).outcome} :
                                o = "data"}}

\* the frontend takes in result r of its request, which was answered with the
\* given HTTP status (0: not answered)
Settle(r, again, status) ==
  LET q1 == Settled(query, r, again) IN
  /\ query' = q1
  /\ inflight' = IF again THEN inflight ELSE inflight - 1
  /\ requested' = IF again THEN tasks ELSE requested
  /\ boundary' = IF /\ mounted
                    /\ ~RendersFallback(boundary)
                    /\ q1.data = NoData
                    /\ q1.status = "error"
                 THEN getDerivedStateFromError(q1.error)
                 ELSE boundary
  /\ lastRender' = [ op |-> "settle", issued |-> IF again THEN 1 ELSE 0,
                     outcome |-> IF r.ok THEN "success"
                                 ELSE IF again THEN "retry" ELSE "error",
                     before |-> query,
                     renders |-> 1, status |-> status ]
  /\ UNCHANGED mounted

\* main.tsx renders <StrictMode><QueryProvider><App/>: TaskList renders (twice
\* under StrictMode in development) against the QueryClient's cache
Mount(strict) ==
  /\ ~mounted
  /\ mounted' = TRUE
  /\ LET r1 == useTasks(query, TRUE)
         r2 == IF strict THEN useTasks(r1.query, TRUE)
                         ELSE [r1 EXCEPT !.issued = 0]
     IN /\ query' = r2.query
        /\ inflight' = inflight + r1.issued + r2.issued
        /\ requested' = IF r1.issued + r2.issued > 0 THEN tasks ELSE requested
        /\ boundary' = Caught(ErrorBoundaryState, r2)
        /\ lastRender' = [ op |-> "mount", issued |-> r1.issued + r2.issued,
                           outcome |-> r2.outcome, before |-> query,
                           renders |-> IF strict THEN 2 ELSE 1,
                           status |-> 0 ]
  /\ UNCHANGED server

\* the component tree unmounts; the QueryClient and its request live on
Unmount ==
  /\ mounted
  /\ mounted' = FALSE
  /\ boundary' = ErrorBoundaryState
  /\ lastRender' = [ op |-> "unmount", issued |-> 0, outcome |-> "none",
                     before |-> query,
                     renders |-> 1, status |-> 0 ]
  /\ UNCHANGED <<query, inflight, requested, server>>

\* the service answers the request in flight
ListRequestSettles(origin) ==
  /\ inflight > 0
  /\ \E q \in QueryResults(tasks, tasksColumns) \cup {QueryUnavailable} :
       LET r == AppResponse("/api/tasks", getTaskList(q), origin) IN
       /\ resp' = r
       /\ lastOp' = [ op |-> "GET /api/tasks", outcome |-> getTaskList(q).kind,
                      arg |-> Previous ]
       /\ queried' = [rows |-> tasks, result |-> q, calls |-> DbCalls]
       /\ \E again \in RetryChoices(query, queryFn(r)) : Settle(queryFn(r), again, r.status)
  /\ UNCHANGED <<users, tasks, tasksColumns, nextUserId, nextTaskId, clock>>

\* the request in flight fails before any response arrives
ListRequestRejects ==
  /\ inflight > 0
  /\ \E again \in RetryChoices(query, FetchRejected) : Settle(FetchRejected, again, 0)
  /\ UNCHANGED server

\* <button onClick={reset}>Retry</button>: the boundary forgets the error and
\* renders its children again
RetryClick ==
  /\ mounted
  /\ RendersFallback(boundary)
  /\ LET r == useTasks(query, TRUE) IN
       /\ query' = r.query
       /\ inflight' = inflight + r.issued
       /\ requested' = IF r.issued > 0 THEN tasks ELSE requested
       /\ boundary' = Caught(reset, r)
       /\ lastRender' = [ op |-> "retry", issued |-> r.issued,
                          outcome |-> r.outcome, before |-> query,
                          renders |-> 1, status |-> 0 ]
  /\ UNCHANGED <<mounted, server>>

\* the freshness window of the cached result ends
StaleTimePasses ==
  /\ query.data # NoData
  /\ ~query.stale
  /\ query' = [query EXCEPT !.stale = TRUE]
  /\ lastRender' = [ op |-> "stale", issued |-> 0, outcome |-> "none",
                     before |-> query,
                     renders |-> 1, status |-> 0 ]
  /\ UNCHANGED <<mounted, boundary, inflight, requested, server>>

\* the tab gets the focus back: stale data on screen is refetched in the
\* background
WindowFocus ==
  /\ Display = "count"
  /\ query.stale
  /\ ~query.fetching
  /\ query' = [query EXCEPT !.fetching = TRUE, !.failureCount = 0]
  /\ inflight' = inflight + 1
  /\ requested' = tasks
  /\ lastRender' = [ op |-> "focus", issued |-> 1, outcome |-> "data",
                     before |-> query,
                     renders |-> 1, status |-> 0 ]
  /\ UNCHANGED <<mounted, boundary, server>>

\* the cache drops an entry that no component observes, once it is idle and
\* no longer fresh
GcQuery ==
  /\ query.status # "absent"
  /\ ~query.fetching
  /\ ~mounted \/ RendersFallback(boundary)
  /\ query.data = NoData \/ query.stale
  /\ query' = NoEntry
  /\ lastRender' = [ op |-> "gc", issued |-> 0, outcome |-> "none",
                     before |-> query,
                     renders |-> 1, status |-> 0 ]
  /\ UNCHANGED <<mounted, boundary, inflight, requested, server>>

(***************************************************************************)
(* The specification.                                                      *)
(***************************************************************************)
Init ==
  /\ users = {}
  /\ tasks = {}
  /\ tasksColumns = MigrationTasksColumns
  /\ nextUserId = 1
  /\ nextTaskId = 1
  /\ clock = 0
  /\ lastOp = [op |-> "migrate", outcome |-> "ok", arg |-> NULL]
  /\ resp = [ route |-> "none", status |-> 0, ctype |-> "none",
              body |-> [text |-> ""], handler |-> "none",
              cors |-> [origin |-> "none", acao |-> "none", credentials |-> FALSE] ]
  /\ queried = NoQuery
  /\ mounted = FALSE
  /\ boundary = ErrorBoundaryState
  /\ query = NoEntry
  /\ inflight = 0
  /\ requested = {}
  /\ lastRender = [ op |-> "none", issued |-> 0, outcome |-> "none",
                    before |-> NoEntry,
                    renders |-> 1, status |-> 0 ]

Next ==
  \/ \E email \in Emails : InsertUser(email)
  \/ \E userId \in (1..MaxUsers) \cup {NoSuchUserId}, input \in TaskInputs :
       InsertTask(userId, input)
  \/ DbGenerateMigrate
  \/ Tick
  \/ \E origin \in Origins : GetRoot(origin)
  \/ \E origin \in Origins : GetApiTasks(origin)
  \/ \E origin \in Origins, path \in Paths : Preflight(origin, path)

Spec == Init /\ [][Next]_vars

\* the input a plain INSERT INTO tasks (user_id, title) gives
PlainInput ==
  [description |-> Omitted, completed |-> Omitted, created_at |-> Omitted]

\* the frontend against the service, the store being filled meanwhile
ClientNext ==
  \/ \E strict \in BOOLEAN : Mount(strict)
  \/ Unmount
  \/ \E origin \in CorsOrigins : ListRequestSettles(origin)
  \/ ListRequestRejects
  \/ RetryClick
  \/ StaleTimePasses
  \/ WindowFocus
  \/ GcQuery
  \/ InsertUser("a@example.com")
  \/ InsertTask(1, PlainInput)
  \/ DbGenerateMigrate

ClientSpec == Init /\ [][ClientNext]_vars

\* the frontend with what its timers guarantee: the freshness window ends and
\* the idle cache entry is collected.  Nothing in useTasks bounds the time a
\* request may stay unanswered, so its settling is not guaranteed.
ClientLiveSpec ==
  /\ Init
  /\ [][ClientNext]_vars
  /\ WF_vars(StaleTimePasses)
  /\ WF_vars(GcQuery)


(***************************************************************************)
(* Properties of the list-tasks operation.                                 *)
(***************************************************************************)
\* the last response answers a list request
ListAnswered == resp.route = "/api/tasks"

\* ... and the query behind it resolved
ListSucceeded == ListAnswered /\ queried.result.ok

DistinctCreatedAt(rows) ==
  \A r1, r2 \in rows : r1 # r2 => r1.created_at # r2.created_at

BodyTasks == resp.body.tasks

\* C1: when all tasks in the store have pairwise distinct createdAt, the tasks
\* of the list response are strictly descending in createdAt: each element's
\* createdAt is greater (as the store compares text) than its successor's.
C1_StrictlyDescending ==
  (ListSucceeded /\ DistinctCreatedAt(queried.rows)) =>
    \A i \in 1..(Len(BodyTasks) - 1) :
      TextLess(BodyTasks[i + 1].createdAt.value, BodyTasks[i].createdAt.value)

C1_Witness ==
  /\ ListSucceeded
  /\ DistinctCreatedAt(queried.rows)
  /\ Cardinality(queried.rows) >= 2
  /\ Len(BodyTasks) >= 2

\* C2: the list response holds every row of the tasks table exactly once and
\* nothing else; its length is the number of rows at query time.
C2_EveryRowExactlyOnce ==
  ListSucceeded =>
    /\ Len(BodyTasks) = Cardinality(queried.rows)
    /\ {BodyTasks[i] : i \in 1..Len(BodyTasks)}
         = {TaskFromRow(r) : r \in queried.rows}

C2_Witness ==
  /\ ListSucceeded
  /\ Cardinality(queried.rows) = MaxTasks
  /\ ~DistinctCreatedAt(queried.rows)

\* C3: a list request on an empty tasks table whose query resolves is answered
\* with HTTP 200 and the body { tasks: [] }, not with an error.
C3_EmptyIs200 ==
  (ListSucceeded /\ queried.rows = {}) =>
    /\ resp.status = 200
    /\ resp.ctype = "json"
    /\ resp.body = [tasks |-> <<>>]

C3_Witness ==
  /\ ListSucceeded
  /\ queried.rows = {}
  /\ tasks = {}
  /\ resp.status = 200

\* C4: whenever the store query fails, the handler catches the failure and
\* answers with a JSON error envelope, HTTP 500; no exception leaves the handler.
C4_FailureCaughtAsJsonEnvelope ==
  (ListAnswered /\ ~queried.result.ok) =>
    /\ resp.handler = "returned"
    /\ resp.status = 500
    /\ resp.ctype = "json"

C6_TaskFields ==
  ListSucceeded =>
    \A i \in 1..Len(BodyTasks) :
      LET t == BodyTasks[i] IN
        /\ DOMAIN t = TaskFields
        /\ t.completed.type = "boolean"
        /\ t.completed.value \in BOOLEAN
        /\ t.description.type \in {"string", "null"}
        /\ t.description.type = "null" <=> t.description.value = NULL

C6_Witness ==
  /\ ListSucceeded
  /\ \E i \in 1..Len(BodyTasks) :
       BodyTasks[i].completed.value /\ BodyTasks[i].description.type = "string"
  /\ \E i \in 1..Len(BodyTasks) :
       ~BodyTasks[i].completed.value /\ BodyTasks[i].description.type = "null"

(***************************************************************************)
(* Properties of the store.                                                *)
(***************************************************************************)
\* C7: an insert of a task whose userId is the id of no user fails and leaves
\* the tasks table and the users table as they were.
C7_BadUserIdInsertFails ==
  [][ (lastOp'.op = "insert task" /\ lastOp'.arg \notin UserIds) =>
        /\ lastOp'.outcome # "ok"
        /\ tasks' = tasks
        /\ users' = users ]_vars

C7_Witness ==
  /\ lastOp.op = "insert task"
  /\ lastOp.arg = NoSuchUserId
  /\ lastOp.outcome = "FOREIGN KEY constraint failed"
  /\ users # {}

\* C8: in every reachable state every task's userId is the id of a user row.
C8_TasksReferenceUsers == \A t \in tasks : t.user_id \in UserIds

C8_Witness ==
  /\ Cardinality(tasks) = MaxTasks
  /\ lastOp.op = "insert task"
  /\ lastOp.outcome = "ok"

\* C9: handling a request (GET /, GET /api/tasks, a CORS preflight) leaves the
\* users and tasks tables unchanged.
C9_RequestsReadOnly ==
  [][ lastOp'.op \in {"GET /", "GET /api/tasks", "OPTIONS"} =>
        store' = store ]_vars

C9_Witness ==
  /\ lastOp.op = "GET /api/tasks"
  /\ ListSucceeded
  /\ tasks = {}
  /\ users # {}

\* a list request is answered in this step, its query resolving
ListStep == lastOp'.op = "GET /api/tasks" /\ queried'.result.ok

\* the response of this step lists the rows the table holds now
ReflectsStore ==
  {resp'.body.tasks[i] : i \in 1..Len(resp'.body.tasks)}
    = {TaskFromRow(r) : r \in tasks'}

\* C10 as stated: the response is a function of the store contents alone; two
\* requests against the same contents return the same body, and a request
\* after inserts reflects the new rows whatever earlier requests returned.
C10_SameStoreSameBody ==
  [][ ListStep =>
        /\ ReflectsStore
        /\ (ListSucceeded /\ queried.rows = tasks') => resp'.body = resp.body
    ]_vars

\* C10, amended: the response depends on the store contents alone; two requests
\* against the same contents return the same tasks, and the same body when the
\* createdAt values are pairwise distinct; a request after inserts reflects the
\* new rows whatever earlier requests returned.
C10_StatelessPerRequest ==
  [][ ListStep =>
        /\ ReflectsStore
        /\ Len(resp'.body.tasks) = Cardinality(tasks')
        /\ (ListSucceeded /\ queried.rows = tasks' /\ DistinctCreatedAt(tasks'))
             => resp'.body = resp.body
    ]_vars

C10_Witness ==
  /\ lastOp.op = "GET /api/tasks"
  /\ ListSucceeded
  /\ lastOp.arg.ok
  /\ lastOp.arg.rows # queried.rows
  /\ queried.rows = tasks

\* the two origins the specification allow-lists
AllowListed ==
  {"http://localhost:5173", "https://monorepo-pnpm-turbo-frontend.pages.dev"}

\* some request has been answered
Answered == resp.handler # "none"

\* the response grants cross-origin access to the request's origin
Granted == resp.cors.acao = resp.cors.origin /\ resp.cors.credentials

\* C18: on every path and for every Origin, the response grants cross-origin
\* access (the origin is echoed as allowed, credentials permitted) exactly when
\* the Origin is one of the two allow-listed origins; a preflight answer allows
\* exactly GET, POST, PUT, DELETE and OPTIONS and has a max-age of 600.
C18_CorsAllowList ==
  Answered =>
    /\ Granted <=> resp.cors.origin \in AllowListed
    /\ resp.handler = "cors" =>
         /\ resp.body.allowMethods = {"GET", "POST", "PUT", "DELETE", "OPTIONS"}
         /\ resp.body.maxAge = 600

\* a preflight from an origin outside the list has been refused
C18_Witness ==
  /\ resp.handler = "cors"
  /\ resp.route = "/api/tasks"
  /\ resp.cors.origin \notin AllowListed
  /\ ~Granted

\* C19: GET / is always answered with status 200 and a JSON body that is an
\* object with the single field message, a string, whatever the store holds
\* and whether or not its queries succeed.
C19_RootAlwaysHello ==
  lastOp.op = "GET /" =>
    /\ resp.status = 200
    /\ resp.ctype = "json"
    /\ DOMAIN resp.body = {"message"}
    /\ resp.body.message \in STRING

\* GET / answered while tasks exist and the list query cannot succeed
C19_Witness ==
  /\ lastOp.op = "GET /"
  /\ resp.status = 200
  /\ tasks # {}
  /\ ~SelectColumnsOk(tasksColumns)

\* C20: the tasks of a successful list response are the store's query result
\* as the query returned it: the same elements, in the same order, with the
\* same field values.
C20_ResultUnmodified ==
  ListSucceeded => BodyTasks = queried.result.value

\* a list of two different tasks has been passed through
C20_Witness ==
  /\ ListSucceeded
  /\ Len(queried.result.value) = 2
  /\ queried.result.value[1] # queried.result.value[2]
  /\ BodyTasks = queried.result.value

(***************************************************************************)
(* The frontend's claims, checked under ClientSpec.                        *)
(***************************************************************************)
\* the step is the arrival of a successful list response
SuccessStep ==
  /\ inflight' < inflight
  /\ lastRender'.op = "settle"
  /\ lastRender'.outcome = "success"

\* the step is the failure of a list request as the cache sees it, retried or
\* not
FailureStep ==
  /\ lastRender'.op = "settle"
  /\ lastRender'.outcome \in {"retry", "error"}
  /\ query'.failureCount = query.failureCount + 1

\* the step ends a list request without a 2xx response: the service answered
\* with another status, or the fetch was rejected
NotOkStep ==
  /\ lastRender'.op = "settle"
  /\ inflight' < inflight \/ query'.failureCount = query.failureCount + 1
  /\ lastRender'.status < 200 \/ lastRender'.status > 299

\* the step mounts the component tree
MountStep == ~mounted /\ mounted'

\* the step is a click on Retry
RetryStep ==
  /\ mounted
  /\ RendersFallback(boundary)
  /\ lastRender'.op = "retry"
  /\ UNCHANGED server

\* the number TaskList shows
ShownCount == TaskListCount(ValueOf(query.data))

\* C11: when the mounted frontend receives a successful list response from a
\* store holding N tasks, it shows the count, and the count is N, for every
\* N >= 0.
C11_ShowsTaskCount ==
  [][ (SuccessStep /\ mounted) =>
        /\ Display' = "count"
        /\ ShownCount' = Cardinality(tasks) ]_vars

\* the count 2 is on screen for a store of two tasks
C11_Witness ==
  /\ Display = "count"
  /\ lastRender.op = "settle"
  /\ lastRender.outcome = "success"
  /\ Cardinality(tasks) = 2
  /\ ShownCount = 2

\* C12: mounting the frontend on an empty cache issues exactly one list
\* request, not zero and not two, also when StrictMode renders twice.
C12_MountIssuesOneRequest ==
  [][ (MountStep /\ query.status = "absent") =>
        /\ inflight' = inflight + 1
        /\ lastRender'.issued = 1 ]_vars

\* a StrictMode mount on an empty cache has issued one request
C12_Witness ==
  /\ lastRender.op = "mount"
  /\ lastRender.renders = 2
  /\ lastRender.before.status = "absent"
  /\ lastRender.issued = 1
  /\ inflight = 1

\* C13 as stated: whenever a list request of the mounted frontend is in
\* flight, the loading indicator is on screen.
C13_LoadingWhileInFlight ==
  (mounted /\ inflight > 0) => Display = "loading"

\* C13, amended: whenever a list request of the mounted frontend is in flight
\* and the cache holds no result yet, the loading indicator is on screen; this
\* is the case from the first render on.  (A refetch of a cached result runs in
\* the background with the count on screen.)
C13_LoadingUntilFirstResult ==
  (mounted /\ inflight > 0 /\ query.data = NoData) => Display = "loading"

\* the first render shows the loading indicator for its request
C13_Witness ==
  /\ lastRender.op = "mount"
  /\ lastRender.before.status = "absent"
  /\ inflight = 1
  /\ query.data = NoData
  /\ Display = "loading"

\* C14: when the list request has failed, the error message with its retry
\* action is on screen, and a click on Retry clears the error state and issues
\* the list request again.
C14_RetryReissuesRequest ==
  [][ /\ (FailureStep /\ lastRender'.outcome = "error" /\ mounted
            /\ query.data = NoData) => Display' = "error"
      /\ RetryStep =>
           /\ ~RendersFallback(boundary')
           /\ inflight' = inflight + 1 ]_vars

C16_FreshCacheNoRequest ==
  [][ (MountStep /\ query.status = "success" /\ ~query.stale) =>
        /\ inflight' = inflight
        /\ lastRender'.issued = 0
        /\ query'.data = query.data
        /\ Display' = "count" ]_vars

\* the tree has been mounted again on a fresh result
C16_Witness ==
  /\ lastRender.op = "mount"
  /\ lastRender.before.status = "success"
  /\ ~lastRender.before.stale
  /\ lastRender.issued = 0
  /\ inflight = 0
  /\ Display = "count"

\* C17: the frontend never has two list requests in flight.
C17_OneRequestInFlight == inflight <= 1

\* a mount during an outstanding request has joined that request
C17_Witness ==
  /\ lastRender.op = "mount"
  /\ lastRender.before.fetching
  /\ lastRender.issued = 0
  /\ inflight = 1

\* how often a call of the given name was made on db for the last response
CallCount(name) ==
  Cardinality({i \in 1..Len(queried.calls) : queried.calls[i] = name})

\* C21: every list request executes exactly one store query, that is one
\* select, one from and one orderBy, never none and never more, whatever the
\* store holds and whether or not the query succeeds.
C21_OneQueryPerRequest ==
  lastOp.op = "GET /api/tasks" =>
    /\ Len(queried.calls) = 3
    /\ \A name \in {"select", "from", "orderBy"} : CallCount(name) = 1

\* a second list request on a filled store has made its own single query
C21_Witness ==
  /\ lastOp.op = "GET /api/tasks"
  /\ lastOp.arg.ok
  /\ tasks # {}
  /\ CallCount("select") = 1

\* C22: the layout the migration creates is the layout the service queries:
\* the tasks table has exactly the columns id, user_id, title, description,
\* completed, created_at, the users table exactly id, name, email, created_at,
\* both as in the ORM schema, and no list query fails for a missing column.
C22_MigrationMatchesSchema ==
  /\ tasksColumns
       = {"id", "user_id", "title", "description", "completed", "created_at"}
  /\ tasksColumns = SchemaTasksColumns
  /\ MigrationUsersColumns = {"id", "name", "email", "created_at"}
  /\ MigrationUsersColumns = SchemaUsersColumns
  /\ ListAnswered => queried.result.error # "D1_ERROR: no such column"

\* the emails of the user rows
UserEmails == {u.email : u \in users}

\* C23: in every reachable state no two user rows have the same email: the
\* insert of a user whose email an existing user has fails and leaves the
\* users table unchanged.
C23_EmailUnique ==
  [][ /\ \A u1, u2 \in users' : u1.email = u2.email => u1 = u2
      /\ (lastOp'.op = "insert user" /\ lastOp'.arg \in UserEmails) =>
           /\ lastOp'.outcome = "UNIQUE constraint failed"
           /\ users' = users
           /\ nextUserId' = nextUserId ]_vars

\* an insert with the email of the existing user has been refused
C23_Witness ==
  /\ lastOp.op = "insert user"
  /\ lastOp.outcome = "UNIQUE constraint failed"
  /\ lastOp.arg \in UserEmails
  /\ Cardinality(users) = Cardinality(UserEmails)
  /\ users # {}

\* the task row the last successful insert stored
InsertedTask == CHOOSE t \in tasks : t.id = nextTaskId - 1

\* the last step inserted a task without a completed and a created_at value
InsertedWithDefaults ==
  /\ lastOp.op = "insert task"
  /\ lastOp.outcome = "ok"
  /\ lastOp.input.completed = Omitted
  /\ lastOp.input.created_at = Omitted

\* C24: a task inserted without a completed and without a createdAt value is
\* stored with completed = false and createdAt = the store's time at the
\* insert, and a list response shows every task stored with completed = false
\* as completed: false.
C24_InsertDefaults ==
  /\ InsertedWithDefaults =>
       /\ InsertedTask.completed = 0
       /\ InsertedTask.created_at = DatetimeNow(clock)
  /\ ListSucceeded =>
       \A r \in queried.rows :
         r.completed = 0 =>
           \E i \in 1..Len(BodyTasks) :
             /\ BodyTasks[i].id = JsNumber(r.id)
             /\ BodyTasks[i].completed = JsBoolean(FALSE)

\* a task stored with the defaults after time has passed is listed as not
\* completed
C24_Witness ==
  /\ ListSucceeded
  /\ \E r \in queried.rows :
       /\ r.completed = 0
       /\ r.created_at = DatetimeNow(1)
       /\ \E i \in 1..Len(BodyTasks) :
            /\ BodyTasks[i].id = JsNumber(r.id)
            /\ BodyTasks[i].completed = JsBoolean(FALSE)

\* C25: every list request of the frontend ends the loading state in the
\* count or in the error fallback, also when the service never answers (a
\* request timeout turns the unanswered request into a failure); an unmount
\* ends it as well.
C25_LoadingEnds ==
  (Display = "loading") ~> (Display \in {"count", "error", "nothing"})

\* C26: a list request that runs while tasks are being inserted is answered
\* with the ordered contents of the tasks table at one instant between its
\* start and its end: the body holds whole rows of that instant only, each
\* once, and no row that was committed before the request started is missing.
C26_SnapshotOfOneInstant ==
  [][ SuccessStep =>
        /\ requested \subseteq tasks
        /\ Len(resp'.body.tasks) = Cardinality(tasks)
        /\ {resp'.body.tasks[i] : i \in 1..Len(resp'.body.tasks)}
             = {TaskFromRow(r) : r \in tasks}
        /\ \A r \in requested :
             \E i \in 1..Len(resp'.body.tasks) :
               resp'.body.tasks[i] = TaskFromRow(r)
        /\ resp'.body.tasks \in {MapSeq(p) : p \in {o \in Perms(tasks) : OrderedDesc(o)}} ]_vars

\* a request issued on a table of one task was answered after a second task
\* had been inserted, with both
C26_Witness ==
  /\ lastRender.op = "settle"
  /\ lastRender.outcome = "success"
  /\ lastOp.op = "GET /api/tasks"
  /\ Cardinality(requested) = 1
  /\ Cardinality(queried.rows) = 2
  /\ requested \subseteq queried.rows
  /\ Len(BodyTasks) = 2

\* the createdAt text of the i-th task of the list response
CreatedAtOf(i) == BodyTasks[i].createdAt.value

\* C27: for every content of the tasks table, tasks with equal createdAt
\* included, no task of the list response has a createdAt greater than that of
\* a task before it, and every task of the table, tied ones too, is in the
\* response exactly once; the order among tied tasks is free.
C27_NonIncreasingWithTies ==
  ListSucceeded =>
    /\ \A i, j \in 1..Len(BodyTasks) :
         i < j => ~TextLess(CreatedAtOf(i), CreatedAtOf(j))
    /\ \A r \in queried.rows :
         Cardinality({i \in 1..Len(BodyTasks) : BodyTasks[i] = TaskFromRow(r)}) = 1
    /\ Len(BodyTasks) = Cardinality(queried.rows)

\* two tied tasks have been listed, the one inserted first coming first
C27_Witness ==
  /\ ListSucceeded
  /\ Len(BodyTasks) = 2
  /\ CreatedAtOf(1) = CreatedAtOf(2)
  /\ BodyTasks[1].id = JsNumber(1)
  /\ BodyTasks[2].id = JsNumber(2)

\* C28: whenever the frontend is mounted, its task area shows exactly one of
\* the loading indicator, the error fallback with its Retry button, and the
\* task count: never two of them and never none, whatever the outcomes of the
\* requests and however often Retry is clicked.
C28_ExactlyOneDisplay ==
  mounted =>
    /\ Shown \subseteq {"loading", "error", "count"}
    /\ Cardinality(Shown) = 1

\* after a failed request and a click on Retry the fallback alone is shown
C28_Witness ==
  /\ mounted
  /\ lastRender.op = "retry"
  /\ Shown = {"error"}

\* the boundary's state is one of { hasError: false, error: null } and
\* { hasError: true, error: an error }
BoundaryStateOk(b) == b.hasError <=> b.error # NoError

\* C29: in every reachable state the ErrorBoundary has hasError = true exactly
\* when error is not null and renders its children exactly while hasError is
\* false; it starts as { hasError: false, error: null }, goes to the fallback
\* when a child throws, and reset() puts it back to { hasError: false, error:
\* null } so that the children are rendered again.
C29_ErrorBoundaryStates ==
  [][ /\ BoundaryStateOk(boundary)
      /\ BoundaryStateOk(boundary')
      /\ RendersFallback(boundary') <=> boundary'.hasError
      /\ mounted' => (Shown' = {"error"} <=> boundary'.hasError)
      /\ (MountStep /\ lastRender'.outcome # "throw") =>
           boundary' = [hasError |-> FALSE, error |-> NoError]
      /\ ((MountStep \/ RetryStep) /\ lastRender'.outcome = "throw") =>
           boundary' = [hasError |-> TRUE, error |-> query'.error]
      /\ RetryStep =>
           /\ reset = [hasError |-> FALSE, error |-> NoError]
           /\ lastRender'.renders = 1
           /\ lastRender'.outcome # "throw" =>
                /\ boundary' = [hasError |-> FALSE, error |-> NoError]
                /\ Shown' \in {{"loading"}, {"count"}} ]_vars

\* Retry has put the boundary back to its initial state and the children are
\* on screen again
C29_Witness ==
  /\ mounted
  /\ lastRender.op = "retry"
  /\ lastRender.outcome = "suspend"
  /\ boundary = [hasError |-> FALSE, error |-> NoError]
  /\ Shown = {"loading"}

====
